---------------------------- MODULE Spec2Model ----------------------------
(***************************************************************************)
(* A model of render251016/app.py: a single-table blog (posts) behind a    *)
(* commit-on-success session scope, with a JSON API and HTML form          *)
(* handlers.                                                               *)
(*                                                                         *)
(* Text is a sequence of one-character strings, so that str.strip() is     *)
(* computed and not assumed.  The table is the set of committed rows.      *)
(* A request is first received (it is then in flight) and next handled by  *)
(* one action that runs the whole handler, its session scope included.     *)
(* The storage engine is the default one, SQLite: an INTEGER PRIMARY KEY   *)
(* without the AUTOINCREMENT keyword takes max(id)+1, commit and rollback  *)
(* may fail, writers are serialised.                                       *)
(***************************************************************************)
EXTENDS Naturals, Sequences, FiniteSets, TLC

VARIABLES
    db,      \* the committed rows of table posts
    phase,   \* "down" | "up": whether the module has been imported
    pc,      \* "idle" | "handling" | "done": where the current request is
    req,     \* the request in flight, or the last one handled
    resp,    \* the response to the last request handled
    sess,    \* the events of the session scope of the last request / startup
    procs,   \* concurrent start-ups: per process, its position and its count
    gone     \* history: the id that the last successful DELETE /api/posts/{id}
             \* removed, 0 before the first one

vars == <<db, phase, pc, req, resp, sess, procs, gone>>

----------------------------------------------------------------------------
(* Bounds *)

\* ids are drawn from 1..MaxPosts: no post is created beyond that id
MaxPosts == 3

\* the number of processes that start concurrently
MaxProcs == 3

----------------------------------------------------------------------------
(* Text *)

Whitespace == {" ", "\t", "\n", "\r", "\f"}

RECURSIVE lstrip(_)
lstrip(s) ==
    IF s # <<>> /\ Head(s) \in Whitespace THEN lstrip(Tail(s)) ELSE s

RECURSIVE rstrip(_)
rstrip(s) ==
    IF s # <<>> /\ s[Len(s)] \in Whitespace
    THEN rstrip(SubSeq(s, 1, Len(s) - 1))
    ELSE s

\* str.lstrip() in the place of str.strip()
strip_lead_only(s) == lstrip(s)

\* no trimming at all
strip_identity(s) == s

strip(s) == rstrip(lstrip(s))

Keys == {"title", "author", "content"}

FieldOrder == <<"title", "author", "content">>

\* The raw values a client sends for a field: the empty text, whitespace
\* only, and one text per field that needs trimming (at the front, at the
\* end, on both sides with whitespace inside).
ValidInput(k) ==
    CASE k = "title"   -> <<" ", "t">>
      [] k = "author"  -> <<"a", "\t">>
      [] k = "content" -> <<"\n", "c", " ", "c", " ">>

FieldInputs(k) == { <<>>, <<" ">>, ValidInput(k) }

AllInputs == UNION { FieldInputs(k) : k \in Keys }

\* Request bodies / forms: any subset of the keys, each with a raw value.
Bodies ==
    UNION { { d \in [K -> AllInputs] : \A k \in K : d[k] \in FieldInputs(k) } :
            K \in SUBSET Keys }

EmptyData == [k \in {} |-> <<>>]

----------------------------------------------------------------------------
(* The Post table *)

NULL == <<>>

\* func.now(), evaluated by the storage engine at INSERT
Timestamps == { <<"now">> }

Ids == 1..MaxPosts

Post(id, title, author, content, created_at) ==
    [id |-> id, title |-> title, author |-> author, content |-> content,
     created_at |-> created_at]

IdsOf(rows) == { p.id : p \in rows }

MaxOf(S) == CHOOSE m \in S : \A x \in S : x <= m

\* INTEGER PRIMARY KEY of SQLite (no AUTOINCREMENT keyword is emitted):
\* one more than the largest id in the table.
NextId(rows) == IF rows = {} THEN 1 ELSE MaxOf(IdsOf(rows)) + 1

isoformat(d) == <<"T">> \o d

post_to_dict(p) ==
    [id |-> p.id, title |-> p.title, author |-> p.author,
     content |-> p.content,
     created_at |-> IF p.created_at # NULL THEN isoformat(p.created_at)
                    ELSE NULL]

\* s.get(Post, post_id): the rows with that primary key (none or one)
SessionGet(rows, post_id) == { p \in rows : p.id = post_id }

\* order_by(Post.id), ascending
RECURSIVE OrderByIdAsc(_)
OrderByIdAsc(rows) ==
    IF rows = {} THEN <<>>
    ELSE LET p == CHOOSE q \in rows : \A r \in rows : q.id <= r.id
         IN  <<p>> \o OrderByIdAsc(rows \ {p})

\* select(Post).order_by(Post.id.desc())
RECURSIVE OrderByIdDesc(_)
OrderByIdDesc(rows) ==
    IF rows = {} THEN <<>>
    ELSE LET p == CHOOSE q \in rows : \A r \in rows : r.id <= q.id
         IN  <<p>> \o OrderByIdDesc(rows \ {p})

MapSeq(Op(_), s) == [i \in 1..Len(s) |-> Op(s[i])]

----------------------------------------------------------------------------
(* Seed data *)

HelloTitle ==
    <<"H", "e", "l", "l", "o", " ", "S", "Q", "L", "A", "l", "c", "h", "e",
      "m", "y">>

HelloAuthor == <<"A", "l", "i", "c", "e">>

HelloContent ==
    <<"T", "h", "i", "s", " ", "i", "s", " ", "y", "o", "u", "r", " ", "f",
      "i", "r", "s", "t", " ", "D", "B", "-", "b", "a", "c", "k", "e", "d",
      " ", "p", "o", "s", "t", ".", "\n", "I", "t", " ", "p", "e", "r", "s",
      "i", "s", "t", "s", " ", "i", "n", " ", "S", "Q", "L", "i", "t", "e",
      ".">>

EditTitle == <<"E", "d", "i", "t", " ", "&", " ", "D", "e", "l", "e", "t", "e">>

EditAuthor == <<"B", "o", "b">>

EditContent ==
    <<"Y", "o", "u", " ", "c", "a", "n", " ", "e", "d", "i", "t", " ", "o",
      "r", " ", "d", "e", "l", "e", "t", "e", " ", "t", "h", "i", "s", " ",
      "p", "o", "s", "t", " ", "f", "r", "o", "m", " ", "t", "h", "e", " ",
      "U", "I", " ", "b", "e", "l", "o", "w", ".">>

\* s.add_all([...]) followed by the flush of commit: two INSERTs, in order
SeedRows(rows, ts) ==
    LET first == Post(NextId(rows), HelloTitle, HelloAuthor, HelloContent, ts)
    IN  { first,
          Post(NextId(rows \cup {first}), EditTitle, EditAuthor, EditContent,
               ts) }

\* the seed block without its count
SeedAlways(rows, ts) == rows \cup SeedRows(rows, ts)

\* the seed block's body: count, and add the two posts to an empty table
SeedIfEmpty(rows, ts) ==
    IF Cardinality(rows) = 0 THEN rows \cup SeedRows(rows, ts) ELSE rows

----------------------------------------------------------------------------
(* The session scope *)

\* get_session with session.close() after the try statement and not in its
\* finally clause: the exception that leaves the except clause skips it
get_session_no_finally(pending, bodyRaises, commitOk, rollbackOk) ==
    LET committed == ~bodyRaises /\ commitOk
        inExcept  == bodyRaises \/ ~commitOk
        ev1 == IF bodyRaises THEN <<"open">>
               ELSE <<"open", IF commitOk THEN "commit" ELSE "commit_failed">>
        ev2 == IF inExcept
               THEN Append(ev1, IF rollbackOk THEN "rollback"
                                ELSE "rollback_failed")
               ELSE ev1
    IN  [db |-> IF committed THEN pending ELSE db,
         events |-> IF inExcept THEN ev2 ELSE Append(ev2, "close"),
         raised |-> inExcept,
         storageError |-> (~bodyRaises /\ ~commitOk) \/ (inExcept /\ ~rollbackOk)]

\* get_session around a body that leaves the rows `pending` in the session
\* and either returns or raises.  commitOk / rollbackOk: does the storage
\* engine carry out session.commit() / session.rollback().
get_session(pending, bodyRaises, commitOk, rollbackOk) ==
    LET committed == ~bodyRaises /\ commitOk
        inExcept  == bodyRaises \/ ~commitOk
        ev1 == IF bodyRaises THEN <<"open">>
               ELSE <<"open", IF commitOk THEN "commit" ELSE "commit_failed">>
        ev2 == IF inExcept
               THEN Append(ev1, IF rollbackOk THEN "rollback"
                                ELSE "rollback_failed")
               ELSE ev1
    IN  [db |-> IF committed THEN pending ELSE db,
         events |-> Append(ev2, "close"),
         raised |-> inExcept,
         storageError |-> (~bodyRaises /\ ~commitOk) \/ (inExcept /\ ~rollbackOk)]

----------------------------------------------------------------------------
(* Requests and responses *)

NoReq == [op |-> "none", id |-> 0, data |-> EmptyData]

IdOps == {"api_get_post", "api_delete_post", "post_detail_page",
          "edit_post_page", "delete_post_action"}

Requests ==
    { [op |-> o, id |-> 0, data |-> EmptyData] :
        o \in {"api_list_posts", "index", "new_post_page"} }
    \cup { [op |-> o, id |-> i, data |-> EmptyData] : o \in IdOps, i \in Ids }
    \cup { [op |-> o, id |-> 0, data |-> d] :
             o \in {"api_create_post", "new_post_action"}, d \in Bodies }
    \cup { [op |-> o, id |-> i, data |-> d] :
             o \in {"api_update_post", "edit_post_action"}, i \in Ids,
             d \in Bodies }

NoResp == [status |-> 0, view |-> "none", posts |-> <<>>, error |-> "",
           id |-> 0]

\* jsonify(...), status
Json(status, posts, error, id) ==
    [status |-> status, view |-> "json", posts |-> posts, error |-> error,
     id |-> id]

\* render_template(name, ...)
Render(view, posts, error) ==
    [status |-> 200, view |-> view, posts |-> posts, error |-> error,
     id |-> 0]

\* redirect(url_for(endpoint, post_id=id))
Redirect(endpoint, id) ==
    [status |-> 302, view |-> endpoint, posts |-> <<>>, error |-> "",
     id |-> id]

\* abort(404), as the client sees it
NotFoundPage ==
    [status |-> 404, view |-> "abort", posts |-> <<>>, error |-> "",
     id |-> 0]

\* an exception that no handler catches
ServerError ==
    [status |-> 500, view |-> "exception", posts |-> <<>>, error |-> "",
     id |-> 0]

\* (data.get(k) or "")
JsonGetOrEmpty(data, k) == IF k \in DOMAIN data THEN data[k] ELSE <<>>

\* request.form.get(k, "")
FormGet(data, k) == IF k \in DOMAIN data THEN data[k] ELSE <<>>

\* the response of a handler whose scope has ended, and the handler's exit
Finish(scope, bodyResp) ==
    /\ db' = scope.db
    /\ sess' = scope.events
    /\ resp' = IF scope.storageError THEN ServerError ELSE bodyResp
    /\ pc' = "done"
    /\ gone' = IF req.op = "api_delete_post" /\ resp'.status = 200
               THEN req.id ELSE gone
    /\ UNCHANGED <<phase, req, procs>>

\* a handler that returns before it opens a session
FinishNoScope(bodyResp) ==
    /\ resp' = bodyResp
    /\ sess' = <<>>
    /\ pc' = "done"
    /\ UNCHANGED <<db, phase, req, procs, gone>>

Handling(op) == pc = "handling" /\ req.op = op

----------------------------------------------------------------------------
(* JSON API *)

\* the body of api_list_posts over the rows the session sees
ListPostsBody(rows) ==
    Json(200, MapSeq(post_to_dict, OrderByIdDesc(rows)), "", 0)

api_list_posts ==
    /\ Handling("api_list_posts")
    /\ \E commitOk, rollbackOk \in BOOLEAN :
         Finish(get_session(db, FALSE, commitOk, rollbackOk),
                ListPostsBody(db))

\* the body of api_get_post over the rows the session sees
GetPostBody(rows, post_id) ==
    LET found == SessionGet(rows, post_id)
    IN  IF found = {} THEN Json(404, <<>>, "Not found", 0)
        ELSE Json(200, <<post_to_dict(CHOOSE p \in found : TRUE)>>, "", 0)

api_get_post ==
    /\ Handling("api_get_post")
    /\ \E commitOk, rollbackOk \in BOOLEAN :
         Finish(get_session(db, FALSE, commitOk, rollbackOk),
                GetPostBody(db, req.id))

CreateRequired == "title, author, content are required"

api_create_post ==
    /\ Handling("api_create_post")
    /\ LET title   == strip(JsonGetOrEmpty(req.data, "title"))
           author  == strip(JsonGetOrEmpty(req.data, "author"))
           content == strip(JsonGetOrEmpty(req.data, "content"))
       IN  IF title = <<>> \/ author = <<>> \/ content = <<>>
           THEN FinishNoScope(Json(400, <<>>, CreateRequired, 0))
           ELSE \E ts \in Timestamps, commitOk, rollbackOk \in BOOLEAN :
                  LET p == Post(NextId(db), title, author, content, ts)
                  IN  Finish(get_session(db \cup {p}, FALSE, commitOk,
                                         rollbackOk),
                             Json(201, <<post_to_dict(p)>>, "", 0))

CannotBeEmpty(k) ==
    CASE k = "title"   -> "title cannot be empty"
      [] k = "author"  -> "author cannot be empty"
      [] k = "content" -> "content cannot be empty"

\* as ApplyFields, with every field replaced: an absent one by the empty text
RECURSIVE ApplyFieldsReplaceAll(_, _, _)
ApplyFieldsReplaceAll(p, data, fields) ==
    IF fields = <<>> THEN [post |-> p, error |-> ""]
    ELSE LET k == Head(fields)
             v == strip(JsonGetOrEmpty(data, k))
         IN  IF k \in DOMAIN data /\ v = <<>>
             THEN [post |-> p, error |-> CannotBeEmpty(k)]
             ELSE ApplyFieldsReplaceAll([p EXCEPT ![k] = v], data,
                                        Tail(fields))

\* as ApplyFields, with each field assigned before it is checked
RECURSIVE ApplyFieldsAssignFirst(_, _, _)
ApplyFieldsAssignFirst(p, data, fields) ==
    IF fields = <<>> THEN [post |-> p, error |-> ""]
    ELSE LET k == Head(fields)
         IN  IF k \in DOMAIN data
             THEN LET q == [p EXCEPT ![k] = strip(data[k])]
                  IN  IF q[k] = <<>>
                      THEN [post |-> q, error |-> CannotBeEmpty(k)]
                      ELSE ApplyFieldsAssignFirst(q, data, Tail(fields))
             ELSE ApplyFieldsAssignFirst(p, data, Tail(fields))

\* The body of api_update_post from `if "title" in data` on: the fields are
\* taken in order, each present one is checked and then assigned; the first
\* blank one ends the body with its error, after the assignments made so far.
RECURSIVE ApplyFields(_, _, _)
ApplyFields(p, data, fields) ==
    IF fields = <<>> THEN [post |-> p, error |-> ""]
    ELSE LET k == Head(fields)
         IN  IF k \in DOMAIN data
             THEN IF strip(data[k]) = <<>>
                  THEN [post |-> p, error |-> CannotBeEmpty(k)]
                  ELSE ApplyFields([p EXCEPT ![k] = strip(data[k])], data,
                                   Tail(fields))
             ELSE ApplyFields(p, data, Tail(fields))

api_update_post ==
    /\ Handling("api_update_post")
    /\ \E commitOk, rollbackOk \in BOOLEAN :
         LET found == SessionGet(db, req.id)
         IN  IF found = {}
             THEN Finish(get_session(db, FALSE, commitOk, rollbackOk),
                         Json(404, <<>>, "Not found", 0))
             ELSE LET p == CHOOSE q \in found : TRUE
                      r == ApplyFields(p, req.data, FieldOrder)
                      \* p is a persistent object of the session: what was
                      \* assigned to it is flushed by the commit at scope exit
                      pending == (db \ {p}) \cup {r.post}
                  IN  Finish(get_session(pending, FALSE, commitOk, rollbackOk),
                             IF r.error # ""
                             THEN Json(400, <<>>, r.error, 0)
                             ELSE Json(200, <<post_to_dict(r.post)>>, "", 0))

api_delete_post ==
    /\ Handling("api_delete_post")
    /\ \E commitOk, rollbackOk \in BOOLEAN :
         LET found == SessionGet(db, req.id)
         IN  IF found = {}
             THEN Finish(get_session(db, FALSE, commitOk, rollbackOk),
                         Json(404, <<>>, "Not found", 0))
             ELSE Finish(get_session(db \ found, FALSE, commitOk, rollbackOk),
                         Json(200, <<>>, "", req.id))

----------------------------------------------------------------------------
(* HTML pages *)

index ==
    /\ Handling("index")
    /\ \E commitOk, rollbackOk \in BOOLEAN :
         Finish(get_session(db, FALSE, commitOk, rollbackOk),
                Render("index.html", OrderByIdDesc(db), ""))

new_post_page ==
    /\ Handling("new_post_page")
    /\ FinishNoScope(Render("new_post.html", <<>>, ""))

AllRequired == "All fields are required."

new_post_action ==
    /\ Handling("new_post_action")
    /\ LET title   == strip(FormGet(req.data, "title"))
           author  == strip(FormGet(req.data, "author"))
           content == strip(FormGet(req.data, "content"))
       IN  IF title = <<>> \/ author = <<>> \/ content = <<>>
           THEN FinishNoScope(
                    Render("new_post.html",
                           << [title |-> title, author |-> author,
                               content |-> content] >>,
                           AllRequired))
           ELSE \E ts \in Timestamps, commitOk, rollbackOk \in BOOLEAN :
                  LET p == Post(NextId(db), title, author, content, ts)
                  IN  Finish(get_session(db \cup {p}, FALSE, commitOk,
                                         rollbackOk),
                             Redirect("post_detail_page", p.id))

post_detail_page ==
    /\ Handling("post_detail_page")
    /\ \E commitOk, rollbackOk \in BOOLEAN :
         LET found == SessionGet(db, req.id)
         IN  IF found = {}
             THEN Finish(get_session(db, TRUE, commitOk, rollbackOk),
                         NotFoundPage)
             ELSE Finish(get_session(db, FALSE, commitOk, rollbackOk),
                         Render("post_detail.html",
                                <<CHOOSE p \in found : TRUE>>, ""))

edit_post_page ==
    /\ Handling("edit_post_page")
    /\ \E commitOk, rollbackOk \in BOOLEAN :
         LET found == SessionGet(db, req.id)
         IN  IF found = {}
             THEN Finish(get_session(db, TRUE, commitOk, rollbackOk),
                         NotFoundPage)
             ELSE Finish(get_session(db, FALSE, commitOk, rollbackOk),
                         Render("edit_post.html",
                                <<CHOOSE p \in found : TRUE>>, ""))

edit_post_action ==
    /\ Handling("edit_post_action")
    /\ LET title   == strip(FormGet(req.data, "title"))
           author  == strip(FormGet(req.data, "author"))
           content == strip(FormGet(req.data, "content"))
       IN  IF title = <<>> \/ author = <<>> \/ content = <<>>
           THEN FinishNoScope(
                    Render("edit_post.html",
                           << [id |-> req.id, title |-> title,
                               author |-> author, content |-> content] >>,
                           AllRequired))
           ELSE \E commitOk, rollbackOk \in BOOLEAN :
                  LET found == SessionGet(db, req.id)
                  IN  IF found = {}
                      THEN Finish(get_session(db, TRUE, commitOk, rollbackOk),
                                  NotFoundPage)
                      ELSE LET p == CHOOSE q \in found : TRUE
                               q == [p EXCEPT !.title = title,
                                              !.author = author,
                                              !.content = content]
                           IN  Finish(get_session((db \ {p}) \cup {q}, FALSE,
                                                  commitOk, rollbackOk),
                                      Redirect("post_detail_page", req.id))

delete_post_action ==
    /\ Handling("delete_post_action")
    /\ \E commitOk, rollbackOk \in BOOLEAN :
         Finish(get_session(db \ SessionGet(db, req.id), FALSE, commitOk,
                            rollbackOk),
                Redirect("index", 0))

----------------------------------------------------------------------------
(* The process *)

StartupReq == [op |-> "startup", id |-> 0, data |-> EmptyData]

\* Import of the module: create_all, then the seed block in its own scope.
\* An exception of the scope ends the import: the process does not come up.
Startup ==
    /\ phase = "down"
    /\ \E ts \in Timestamps, commitOk, rollbackOk \in BOOLEAN :
         LET scope == get_session(SeedIfEmpty(db, ts), FALSE, commitOk,
                                  rollbackOk)
         IN  /\ db' = scope.db
             /\ sess' = scope.events
             /\ phase' = IF scope.raised THEN "down" ELSE "up"
    /\ pc = "idle"
    /\ req' = StartupReq
    /\ resp' = NoResp
    /\ UNCHANGED <<pc, procs, gone>>

\* The process ends between two requests; the database file stays.
Shutdown ==
    /\ phase = "up"
    /\ pc = "idle"
    /\ phase' = "down"
    /\ req' = NoReq
    /\ resp' = NoResp
    /\ sess' = <<>>
    /\ UNCHANGED <<db, pc, procs, gone>>

IsCreate(r) == r.op \in {"api_create_post", "new_post_action"}

\* A request arrives.  Create requests are not drawn once the next id
\* would pass MaxPosts.
Receive ==
    /\ phase = "up"
    /\ pc = "idle"
    /\ \E r \in Requests :
         /\ IsCreate(r) => NextId(db) <= MaxPosts
         /\ req' = r
    /\ pc' = "handling"
    /\ resp' = NoResp
    /\ sess' = <<>>
    /\ UNCHANGED <<db, phase, procs, gone>>

\* The response has been sent: the request is over.
Reply ==
    /\ pc = "done"
    /\ pc' = "idle"
    /\ req' = NoReq
    /\ resp' = NoResp
    /\ sess' = <<>>
    /\ UNCHANGED <<db, phase, procs, gone>>

Init ==
    /\ db = {}
    /\ phase = "down"
    /\ pc = "idle"
    /\ req = NoReq
    /\ resp = NoResp
    /\ sess = <<>>
    /\ procs = <<>>
    /\ gone = 0

Next ==
    \/ Startup
    \/ Shutdown
    \/ Receive
    \/ Reply
    \/ api_list_posts
    \/ api_get_post
    \/ api_create_post
    \/ api_update_post
    \/ api_delete_post
    \/ index
    \/ new_post_page
    \/ new_post_action
    \/ post_detail_page
    \/ edit_post_page
    \/ edit_post_action
    \/ delete_post_action

Spec == Init /\ [][Next]_vars

----------------------------------------------------------------------------
(* Properties *)

\* raw is whitespace only (or empty)
Blank(raw) == \A n \in 1..Len(raw) : raw[n] \in Whitespace

\* t is raw without its leading and trailing whitespace
IsTrimOf(raw, t) ==
    \E i, j \in 0..Len(raw) :
        /\ i + Len(t) + j = Len(raw)
        /\ \A n \in 1..i : raw[n] \in Whitespace
        /\ \A n \in (Len(raw) - j + 1)..Len(raw) : raw[n] \in Whitespace
        /\ \A n \in 1..Len(t) : t[n] = raw[i + n]
        /\ t # <<>> => (t[1] \notin Whitespace /\ t[Len(t)] \notin Whitespace)

\* the storage engine carried out every commit and rollback of the scope
StorageOk(ev) ==
    \A n \in 1..Len(ev) : ev[n] \notin {"commit_failed", "rollback_failed"}

Occurrences(ev, e) == Cardinality({ n \in 1..Len(ev) : ev[n] = e })

\* C1: for an existing post and a PUT /api/posts/{id} body in which at least
\* one present field is blank after trimming, whatever the other fields hold,
\* the response is 400 and the stored row is what it was before the request.
BlankUpdateRejectedRowUnchanged ==
    [][ ( /\ Handling("api_update_post")
          /\ SessionGet(db, req.id) # {}
          /\ \E k \in DOMAIN req.data : Blank(req.data[k])
          /\ StorageOk(sess') )
        => ( /\ resp'.status = 400
             /\ SessionGet(db', req.id) = SessionGet(db, req.id) ) ]_vars

\* C2: a successful PUT /api/posts/{id} sets exactly the fields present in
\* the body to their trimmed values; the absent fields of the post, its id
\* and created_at, and every other post are unchanged.
PartialUpdateFrame ==
    [][ (Handling("api_update_post") /\ resp'.status = 200)
        => LET before == SessionGet(db, req.id)
               after  == SessionGet(db', req.id)
           IN  /\ Cardinality(before) = 1
               /\ Cardinality(after) = 1
               /\ \A p \in before, q \in after :
                    /\ \A k \in Keys :
                         IF k \in DOMAIN req.data
                         THEN IsTrimOf(req.data[k], q[k])
                         ELSE q[k] = p[k]
                    /\ q.id = p.id
                    /\ q.created_at = p.created_at
               /\ db' \ after = db \ before ]_vars

PartialUpdateDone ==
    /\ pc = "done"
    /\ req.op = "api_update_post"
    /\ resp.status = 200
    /\ DOMAIN req.data = {"author"}
    /\ Cardinality(db) >= 2
    /\ \E p \in db : p.id = req.id /\ p.author = <<"a">> /\ p.title = HelloTitle

\* C3: for every title/author/content triple whose trimmed values are all
\* non-blank, POST /api/posts returns 201 with an assigned id, and a GET
\* /api/posts/{id} that follows returns a record whose title, author and
\* content are the trimmed inputs and whose created_at is not null.
CreateThenGetRoundTrip ==
    [][ ( /\ Handling("api_create_post")
          /\ DOMAIN req.data = Keys
          /\ \A k \in Keys : ~Blank(req.data[k])
          /\ StorageOk(sess') )
        => /\ resp'.status = 201
           /\ Len(resp'.posts) = 1
           /\ LET id == resp'.posts[1].id
                  g  == GetPostBody(db', id)
              IN  /\ id \in Nat \ {0}
                  /\ g.status = 200
                  /\ Len(g.posts) = 1
                  /\ g.posts[1].id = id
                  /\ \A k \in Keys : IsTrimOf(req.data[k], g.posts[1][k])
                  /\ g.posts[1].created_at # NULL ]_vars

CreatedAndFetched ==
    /\ pc = "done"
    /\ req.op = "api_create_post"
    /\ resp.status = 201
    /\ GetPostBody(db, resp.posts[1].id).status = 200
    /\ GetPostBody(db, resp.posts[1].id).posts[1].content = <<"c", " ", "c">>

\* C4: a create request (POST /api/posts or POST /posts/new) in which any of
\* title, author, content is missing, empty or whitespace-only is rejected
\* (400 on the API, the form rendered again on the HTML surface) and the
\* stored posts are the same after the request as before it.
BlankCreateRejected ==
    [][ ( /\ pc = "handling"
          /\ IsCreate(req)
          /\ \E k \in Keys : k \notin DOMAIN req.data \/ Blank(req.data[k]) )
        => /\ db' = db
           /\ IF req.op = "api_create_post"
              THEN resp'.status = 400
              ELSE resp'.view = "new_post.html" /\ resp'.error # "" ]_vars

WhitespaceOnlyCreateRejected ==
    /\ pc = "done"
    /\ req.op = "new_post_action"
    /\ DOMAIN req.data = Keys
    /\ \E k \in Keys : req.data[k] = <<" ">>
    /\ \E k \in Keys : ~Blank(req.data[k])
    /\ resp.view = "new_post.html"
    /\ db # {}

\* C5: after DELETE /api/posts/{id} has succeeded for an existing id, every
\* GET /api/posts/{id} for that id that follows returns 404 and no list
\* result (GET /api/posts) that follows holds a record with that id.
DeletedStaysGone ==
    gone # 0 =>
        /\ GetPostBody(db, gone).status = 404
        /\ \A n \in 1..Len(ListPostsBody(db).posts) :
             ListPostsBody(db).posts[n].id # gone

\* C6: every persisted post has a non-empty title, author and content, in
\* every reachable state of the table, requests that end in 400 or 404
\* included.
PersistedFieldsNonEmpty ==
    \A p \in db : \A k \in Keys : p[k] # <<>>

RowsAfterRejectedUpdate ==
    /\ pc = "done"
    /\ req.op = "api_update_post"
    /\ resp.status = 400
    /\ SessionGet(db, req.id) # {}

\* C7: every session scope ends in exactly one outcome.  When the body
\* completes, the scope commits its changes (both seed rows, the created
\* row, the deletion) and the handler's response stands; when the
\* body or the commit raises, the changes are rolled back (the table is what
\* it was) and the exception propagates; in every case, also when commit or
\* rollback fails, the session is closed, once, as the last event.
SessionScopeOutcome ==
    [][ sess' # <<>>
        => /\ sess'[1] = "open"
           /\ sess'[Len(sess')] = "close"
           /\ Occurrences(sess', "open") = 1
           /\ Occurrences(sess', "close") = 1
           /\ IF Occurrences(sess', "commit") = 1
              THEN /\ sess' = <<"open", "commit", "close">>
                   /\ IF req'.op = "startup"
                      THEN /\ phase' = "up"
                           /\ db = {} => Cardinality(db') = 2
                      ELSE resp'.view \notin {"abort", "exception"}
                   /\ (req'.op = "api_delete_post" /\ resp'.status = 200)
                        => SessionGet(db', req'.id) = {}
                   /\ IsCreate(req') => Cardinality(db') = Cardinality(db) + 1
              ELSE /\ Occurrences(sess', "rollback")
                        + Occurrences(sess', "rollback_failed") = 1
                   /\ db' = db
                   /\ IF req'.op = "startup" THEN phase' = "down"
                      ELSE resp'.view \in {"abort", "exception"} ]_vars

ClosedAfterFailedRollback ==
    /\ pc = "done"
    /\ req.op = "edit_post_action"
    /\ sess = <<"open", "commit_failed", "rollback_failed", "close">>

\* C8: a process startup against an empty posts table leaves exactly two
\* posts in it, titled "Hello SQLAlchemy" and "Edit & Delete"; a startup
\* against a table that holds at least one row adds no post and changes none.
StartupSeedsOnlyEmptyTable ==
    [][ (phase = "down" /\ phase' = "up")
        => IF db = {}
           THEN /\ Cardinality(db') = 2
                /\ { p.title : p \in db' } = {HelloTitle, EditTitle}
           ELSE db' = db ]_vars

RestartedOnChangedTable ==
    /\ phase = "up"
    /\ req.op = "startup"
    /\ db # {}
    /\ \E p \in db : p.title \notin {HelloTitle, EditTitle}

\* C9: the list operation (GET /api/posts and GET /) returns every stored
\* post exactly once, in strictly descending id order, whatever creates,
\* updates and deletes came before it.
ListDescendingComplete ==
    (pc = "done" /\ req.op \in {"api_list_posts", "index"}
        /\ resp.status = 200)
    => LET L == resp.posts
       IN  /\ Len(L) = Cardinality(db)
           /\ \A n \in 1..(Len(L) - 1) : L[n].id > L[n + 1].id
           /\ \A p \in db :
                \E n \in 1..Len(L) :
                    /\ L[n].id = p.id
                    /\ \A k \in Keys : L[n][k] = p[k]

ListedAfterDelete ==
    /\ pc = "done"
    /\ req.op = "api_list_posts"
    /\ resp.status = 200
    /\ Len(resp.posts) >= 2
    /\ gone # 0
    /\ \E p \in db : p.title = <<"t">>

----------------------------------------------------------------------------
(* Several processes import the module at once against one database file. *)
(* Each runs the seed block step by step: the session is opened, the rows  *)
(* are counted (a read of what is committed at that moment), the two posts *)
(* are added to the session when the count was 0, and the scope ends: the  *)
(* commit flushes the INSERTs and commits them as one write transaction    *)
(* (the engine serialises writers), or fails and is rolled back; the       *)
(* session is closed either way.                                          *)

Procs == 1..MaxProcs

ProcAt(i, at) == procs[i].pc = at

ProcOpen(i) ==
    /\ ProcAt(i, "import")
    /\ procs' = [procs EXCEPT ![i].pc = "opened"]
    /\ UNCHANGED <<db, phase, pc, req, resp, sess, gone>>

\* select(func.count(Post.id))
CountRows(rows) == Cardinality(rows)

ProcCount(i) ==
    /\ ProcAt(i, "opened")
    /\ procs' = [procs EXCEPT ![i].pc = "counted", ![i].count = CountRows(db)]
    /\ UNCHANGED <<db, phase, pc, req, resp, sess, gone>>

ProcAddAll(i) ==
    /\ ProcAt(i, "counted")
    /\ procs' = [procs EXCEPT ![i].pc = "body_done",
                              ![i].adds = (procs[i].count = 0)]
    /\ UNCHANGED <<db, phase, pc, req, resp, sess, gone>>

ProcCommit(i) ==
    /\ ProcAt(i, "body_done")
    /\ \E ts \in Timestamps :
         db' = IF procs[i].adds THEN db \cup SeedRows(db, ts) ELSE db
    /\ procs' = [procs EXCEPT ![i].pc = "committed"]
    /\ UNCHANGED <<phase, pc, req, resp, sess, gone>>

\* session.commit() raises (the database is locked, the disk is full):
\* except-branch, rollback, and the exception ends the import
ProcCommitFails(i) ==
    /\ ProcAt(i, "body_done")
    /\ procs' = [procs EXCEPT ![i].pc = "rolled_back"]
    /\ UNCHANGED <<db, phase, pc, req, resp, sess, gone>>

ProcClose(i) ==
    /\ \/ ProcAt(i, "committed") /\ procs' = [procs EXCEPT ![i].pc = "up"]
       \/ ProcAt(i, "rolled_back") /\ procs' = [procs EXCEPT ![i].pc = "crashed"]
    /\ UNCHANGED <<db, phase, pc, req, resp, sess, gone>>

InitConc ==
    /\ db = {}
    /\ phase = "down"
    /\ pc = "idle"
    /\ req = NoReq
    /\ resp = NoResp
    /\ sess = <<>>
    /\ procs = [i \in Procs |-> [pc |-> "import", count |-> 0, adds |-> FALSE]]
    /\ gone = 0

NextConc ==
    \E i \in Procs :
        \/ ProcOpen(i)
        \/ ProcCount(i)
        \/ ProcAddAll(i)
        \/ ProcCommit(i)
        \/ ProcCommitFails(i)
        \/ ProcClose(i)

SpecConc == InitConc /\ [][NextConc]_vars

\* C10: when two or more processes have started concurrently against the
\* same empty database and all of them have finished starting up, the posts
\* table holds exactly two seeded posts.
AllStartedExactlyTwoSeeds ==
    (MaxProcs >= 2 /\ \A i \in Procs : procs[i].pc = "up")
        => Cardinality(db) = 2

============================================================================
